---- MODULE Spec2Model ----
(***************************************************************************)
(* Model of src/app.py: one run of the Streamlit script that computes the  *)
(* solar position for a date/time, loads a triangulated mesh, rotates it,  *)
(* projects its shadow onto the ground plane and renders both layers.      *)
(*                                                                         *)
(* Numbers.  Lengths are fixed-point integers in millimetres.  sin, cos    *)
(* and tan are tables of the values rounded to 1/1000; the rotation        *)
(* angles are multiples of 90 degrees, where sin and cos are -1, 0 or 1.   *)
(* numpy arrays are cells of `heap` addressed by an id, so that two names  *)
(* for one array (aliasing) and a copy are different things in the model.  *)
(***************************************************************************)
EXTENDS Integers, Sequences, FiniteSets, TLC

VARIABLES pc, out, sunrise, sunset, default_time, solar_altitude,
          solar_azimuth, scene, objs, heap, mesh, rotation, vertices, faces,
          shadow_direction, shadow_dx, shadow_dy, shadow_vertices, fig, exc

vars == <<pc, out, sunrise, sunset, default_time, solar_altitude,
          solar_azimuth, scene, objs, heap, mesh, rotation, vertices, faces,
          shadow_direction, shadow_dx, shadow_dy, shadow_vertices, fig, exc>>

(* Values of names that are not bound yet *)
None == "None"
NoValue == -(1000 * 1000)
NoExc == [type |-> "None", msg |-> ""]
NoScene == [kind |-> "None", geometry |-> <<>>, exc |-> NoExc]

----------------------------------------------------------------------------
(* Bounds of the model *)

MaxVertices == 2
MaxFaces == 1
MaxGeometries == 2

(* Vertices the loaded meshes are built from (millimetres). *)
VertexPool == {<<1000, 0, 0>>, <<1000, 2000, 3000>>}

(* Slider positions tried for each rotation axis (degrees). *)
RotationAngles == {-90, 0, 90, 180}

(* Solar positions the ephemeris collaborator may report (degrees). *)
Altitudes == {-10, 0, 30, 90}
Azimuths == {179, 180}

----------------------------------------------------------------------------
(* Trigonometry, fixed point *)

(* np.sin(np.radians(d)) * 1000, rounded *)
SinMilli(d) ==
    LET a == d % 360 IN
    CASE a = 0 -> 0
      [] a = 1 -> 17
      [] a = 90 -> 1000
      [] a = 179 -> 17
      [] a = 180 -> 0
      [] a = 181 -> -17
      [] a = 270 -> -1000
      [] a = 359 -> -17

(* np.cos(np.radians(d)) * 1000, rounded *)
CosMilli(d) ==
    LET a == d % 360 IN
    CASE a = 0 -> 1000
      [] a = 1 -> 1000
      [] a = 90 -> 0
      [] a = 179 -> -1000
      [] a = 180 -> -1000
      [] a = 181 -> -1000
      [] a = 270 -> 0
      [] a = 359 -> 1000

(* np.tan(np.radians(d)) * 1000, rounded; tan(radians(90)) is the finite   *)
(* float 1.6e16, kept here as a value large enough to give the same        *)
(* quotient after rounding.                                                *)
TanMilli(d) ==
    CASE d = -10 -> -176
      [] d = 0 -> 0
      [] d = 30 -> 577
      [] d = 45 -> 1000
      [] d = 60 -> 1732
      [] d = 90 -> 2000000000

(* sin and cos of a multiple of 90 degrees *)
Sin90(d) ==
    LET a == d % 360 IN
    CASE a = 0 -> 0 [] a = 90 -> 1 [] a = 180 -> 0 [] a = 270 -> -1

Cos90(d) ==
    LET a == d % 360 IN
    CASE a = 0 -> 1 [] a = 90 -> 0 [] a = 180 -> -1 [] a = 270 -> 0

----------------------------------------------------------------------------
(* Homogeneous 4x4 matrices *)

Identity4 == << <<1, 0, 0, 0>>, <<0, 1, 0, 0>>, <<0, 0, 1, 0>>, <<0, 0, 0, 1>> >>

Dot(A, B, i, j) ==
    A[i][1] * B[1][j] + A[i][2] * B[2][j] + A[i][3] * B[3][j] + A[i][4] * B[4][j]

MatRow(A, B, i) == <<Dot(A, B, i, 1), Dot(A, B, i, 2), Dot(A, B, i, 3), Dot(A, B, i, 4)>>

(* numpy.dot of two 4x4 matrices *)
MatMul(A, B) == <<MatRow(A, B, 1), MatRow(A, B, 2), MatRow(A, B, 3), MatRow(A, B, 4)>>

(* trimesh.transformations.rotation_matrix(radians(deg), axis) *)
rotation_matrix(deg, axis) ==
    LET c == Cos90(deg)
        s == Sin90(deg)
    IN  CASE axis = <<1, 0, 0>> ->
               << <<1, 0, 0, 0>>, <<0, c, -s, 0>>, <<0, s, c, 0>>, <<0, 0, 0, 1>> >>
          [] axis = <<0, 1, 0>> ->
               << <<c, 0, s, 0>>, <<0, 1, 0, 0>>, <<-s, 0, c, 0>>, <<0, 0, 0, 1>> >>
          [] axis = <<0, 0, 1>> ->
               << <<c, -s, 0, 0>>, <<s, c, 0, 0>>, <<0, 0, 1, 0>>, <<0, 0, 0, 1>> >>

(* Variant: the matrices multiplied in the opposite order. *)
concatenate_matrices_reversed(m0, m1, m2) == MatMul(MatMul(MatMul(Identity4, m2), m1), m0)

(* trimesh.transformations.concatenate_matrices(m0, m1, m2) = m0.m1.m2 *)
concatenate_matrices(m0, m1, m2) == MatMul(MatMul(MatMul(Identity4, m0), m1), m2)

(* trimesh.transformations.transform_points applied to one point *)
transform_point(M, v) ==
    << M[1][1] * v[1] + M[1][2] * v[2] + M[1][3] * v[3] + M[1][4],
       M[2][1] * v[1] + M[2][2] * v[2] + M[2][3] * v[3] + M[2][4],
       M[3][1] * v[1] + M[3][2] * v[2] + M[3][3] * v[3] + M[3][4] >>

transform_points(M, vs) == [i \in 1..Len(vs) |-> transform_point(M, vs[i])]

----------------------------------------------------------------------------
(* What the collaborators may return *)

VertexLists == UNION {[1..n -> VertexPool] : n \in 0..MaxVertices}

(* Index triples into a list of n vertices (0-based, as in mesh.faces). *)
Triangles(n) == IF n = 0 THEN {} ELSE {<<0, n - 1, (n - 1) \div 2>>, <<n - 1, 0, 0>>}

FaceLists(n) == UNION {[1..k -> Triangles(n)] : k \in 0..MaxFaces}

Meshes ==
    UNION {{[vertices |-> vs, faces |-> fs] : fs \in FaceLists(Len(vs))} : vs \in VertexLists}

(* A further geometry of a scene, after the first. *)
OtherMesh == [vertices |-> << <<0, 0, 0>> >>, faces |-> << <<0, 0, 0>> >>]

SceneGeometries ==
    {<<>>} \cup
    UNION {{<<m>> \o [i \in 1..k |-> OtherMesh] : m \in Meshes} : k \in 0..(MaxGeometries - 1)}

(* Errors trimesh.load may raise. *)
LoaderErrors ==
    {[type |-> "ValueError", msg |-> "File type: xyz not supported"],
     [type |-> "OSError", msg |-> "No such file or directory: data/waj.obj"]}

(* Results of trimesh.load(model_path): a Scene, a Trimesh, an object of   *)
(* another type (a PointCloud or a Path), or an exception.                 *)
LoadResults ==
    {[kind |-> "Scene", geometry |-> g, exc |-> NoExc] : g \in SceneGeometries}
    \cup {[kind |-> "Trimesh", geometry |-> <<m>>, exc |-> NoExc] : m \in Meshes}
    \cup {[kind |-> "PointCloud", geometry |-> <<>>, exc |-> NoExc]}
    \cup {[kind |-> "raise", geometry |-> <<>>, exc |-> e] : e \in LoaderErrors}

----------------------------------------------------------------------------
(* The pure steps of the script *)

(* pd.notna(sunrise) and pd.notna(sunset) *)
BothAvailable(sr, ss) == sr # "NaT" /\ ss # "NaT"

(* The object bound to default_time: a pandas Timestamp (sunrise + half    *)
(* of the day length) or a datetime.time (datetime.now().time()).          *)
DefaultTime(sr, ss) == IF BothAvailable(sr, ss) THEN "Timestamp" ELSE "time"

DefaultTimeStr(sr, ss) == IF BothAvailable(sr, ss) THEN "HH:MM:SS" ELSE "N/A"

(* default_time.time(): a Timestamp has the method, a datetime.time has    *)
(* no attribute `time`.                                                    *)
HasTimeMethod(obj) == obj = "Timestamp"

(* Variant: a handler for ValueError only. *)
ExceptCatches_ValueErrorOnly(type) == type = "ValueError"

(* except Exception: every exception class the try block can raise is a    *)
(* subclass of Exception.                                                  *)
ExceptCatches(type) == type \in {"ValueError", "OSError", "IndexError", "AttributeError"}

(* Variant: the emptiness test left out. *)
SceneIsEmpty_never(geometry) == FALSE

(* len(scene.geometry) == 0 *)
SceneIsEmpty(geometry) == Len(geometry) = 0

(* Lines 80-87: the index of the selected mesh, or the exception raised. *)
SelectMesh(sc) ==
    IF sc.kind = "Scene"
    THEN IF SceneIsEmpty(sc.geometry)
         THEN [mesh |-> NoValue,
               exc |-> [type |-> "ValueError", msg |-> "The 3D model contains no geometry."]]
         ELSE IF Len(sc.geometry) = 0
              THEN [mesh |-> NoValue,
                    exc |-> [type |-> "IndexError", msg |-> "list index out of range"]]
              ELSE [mesh |-> 1, exc |-> NoExc]
    ELSE IF sc.kind = "Trimesh"
         THEN [mesh |-> 1, exc |-> NoExc]
         ELSE [mesh |-> NoValue,
               exc |-> [type |-> "ValueError", msg |-> "Unsupported 3D model format."]]

(* Lines 96-109 *)
RotationMatrix(rx, ry, rz) ==
    concatenate_matrices(rotation_matrix(rx, <<1, 0, 0>>),
                         rotation_matrix(ry, <<0, 1, 0>>),
                         rotation_matrix(rz, <<0, 0, 1>>))

(* Variant: the horizon itself counted as above the horizon. *)
SunAboveHorizon_inclusive(alt) == alt >= 0

(* if solar_altitude > 0 *)
SunAboveHorizon(alt) == alt > 0

ReferenceHeight == 10

(* 10 / np.tan(np.radians(solar_altitude)), in millimetres.  A zero        *)
(* divisor gives inf in numpy; it is kept as a saturated length.           *)
ShadowLength(alt) ==
    IF TanMilli(alt) = 0
    THEN ReferenceHeight * 1000 * 100
    ELSE (ReferenceHeight * 1000 * 1000) \div TanMilli(alt)

(* Variant: the comparison with 180 made inclusive. *)
ShadowDirection_inclusive(az) == IF az <= 180 THEN az + 180 ELSE az - 180

(* solar_azimuth + 180 if solar_azimuth < 180 else solar_azimuth - 180 *)
ShadowDirection(az) == IF az < 180 THEN az + 180 ELSE az - 180

ShadowDx(len, dir) == (len * SinMilli(dir)) \div 1000

ShadowDy(len, dir) == (len * CosMilli(dir)) \div 1000

(* Variant: a copy that loses the last row. *)
array_copy_short(vs) == SubSeq(vs, 1, Len(vs) - 1)

(* The value of vertices.copy() *)
array_copy(vs) == vs

(* Variant: no copy, shadow_vertices is another name for vertices. *)
copy_target_alias(h, src) == src

(* The array vertices.copy() returns: a new one. *)
copy_target(h, src) == Len(h) + 1

(* a[:, col] += d *)
AddColumn(vs, col, d) == [i \in 1..Len(vs) |-> [vs[i] EXCEPT ![col] = @ + d]]

(* a[:, col] = val *)
SetColumn(vs, col, val) == [i \in 1..Len(vs) |-> [vs[i] EXCEPT ![col] = val]]

(* Variant: the heights kept. *)
ProjectOntoGround_skipped(vs) == vs

(* shadow_vertices[:, 2] = 0 *)
ProjectOntoGround(vs) == SetColumn(vs, 3, 0)

(* Lines 127-129 on the array shadow_vertices names *)
ShadowVertices(vs, dx, dy) == ProjectOntoGround(AddColumn(AddColumn(vs, 1, dx), 2, dy))

(* Store an array under an id of the heap, a new one or an existing one. *)
WriteArray(h, id, val) == IF id = Len(h) + 1 THEN Append(h, val) ELSE [h EXCEPT ![id] = val]

(* go.Mesh3d(x=v[:,0], y=v[:,1], z=v[:,2], i=f[:,0], j=f[:,1], k=f[:,2]) *)
Mesh3d(vs, fs, name) == [name |-> name, xyz |-> vs, ijk |-> fs]

Write(kind, text) == [kind |-> kind, text |-> text]

----------------------------------------------------------------------------
(* The run *)

Init ==
    /\ pc = "sun_times"
    /\ out = <<>>
    /\ sunrise = None
    /\ sunset = None
    /\ default_time = None
    /\ solar_altitude = NoValue
    /\ solar_azimuth = NoValue
    /\ scene = NoScene
    /\ objs = <<>>
    /\ heap = <<>>
    /\ mesh = NoValue
    /\ rotation = <<>>
    /\ vertices = NoValue
    /\ faces = <<>>
    /\ shadow_direction = NoValue
    /\ shadow_dx = NoValue
    /\ shadow_dy = NoValue
    /\ shadow_vertices = NoValue
    /\ fig = <<>>
    /\ exc = NoExc

(* Lines 33-35: the ephemeris collaborator reports sunrise and sunset. *)
SunTimes ==
    /\ pc = "sun_times"
    /\ \E sr \in {"NaT", "Timestamp"}, ss \in {"NaT", "Timestamp"} :
          /\ sunrise' = sr
          /\ sunset' = ss
    /\ pc' = "default_time"
    /\ UNCHANGED <<out, default_time, solar_altitude, solar_azimuth, scene, objs,
                   heap, mesh, rotation, vertices, faces, shadow_direction,
                   shadow_dx, shadow_dy, shadow_vertices, fig, exc>>

(* Lines 38-48: the default time and the three lines about the day. *)
ChooseDefaultTime ==
    /\ pc = "default_time"
    /\ default_time' = DefaultTime(sunrise, sunset)
    /\ out' = out \o << Write("write", IF sunrise # "NaT" THEN "Sunrise HH:MM:SS" ELSE "Sunrise N/A"),
                        Write("write", IF sunset # "NaT" THEN "Sunset HH:MM:SS" ELSE "Sunset N/A"),
                        Write("write", DefaultTimeStr(sunrise, sunset)) >>
    /\ pc' = "time_input"
    /\ UNCHANGED <<sunrise, sunset, solar_altitude, solar_azimuth, scene, objs,
                   heap, mesh, rotation, vertices, faces, shadow_direction,
                   shadow_dx, shadow_dy, shadow_vertices, fig, exc>>

(* Line 51: st.time_input("Select Time", default_time.time()), outside any *)
(* try block: an exception here ends the run.                              *)
TimeInput ==
    /\ pc = "time_input"
    /\ IF HasTimeMethod(default_time)
       THEN /\ pc' = "solpos"
            /\ exc' = exc
       ELSE /\ pc' = "crashed"
            /\ exc' = [type |-> "AttributeError",
                       msg |-> "'datetime.time' object has no attribute 'time'"]
    /\ UNCHANGED <<out, sunrise, sunset, default_time, solar_altitude, solar_azimuth,
                   scene, objs, heap, mesh, rotation, vertices, faces,
                   shadow_direction, shadow_dx, shadow_dy, shadow_vertices, fig>>

(* Lines 54-72: the solar position, from the collaborator, and its display. *)
SolarPosition ==
    /\ pc = "solpos"
    /\ \E alt \in Altitudes, az \in Azimuths :
          /\ solar_altitude' = alt
          /\ solar_azimuth' = az
    /\ out' = out \o << Write("write", "Solar Altitude"), Write("write", "Solar Azimuth") >>
    /\ pc' = "load"
    /\ UNCHANGED <<sunrise, sunset, default_time, scene, objs, heap, mesh, rotation,
                   vertices, faces, shadow_direction, shadow_dx, shadow_dy,
                   shadow_vertices, fig, exc>>

(* Line 77: scene = trimesh.load(model_path).  Each geometry is an object  *)
(* whose vertices attribute names an array of the heap.                    *)
Load ==
    /\ pc = "load"
    /\ \E r \in LoadResults :
          IF r.kind = "raise"
          THEN /\ exc' = r.exc
               /\ pc' = IF ExceptCatches(r.exc.type) THEN "except" ELSE "crashed"
               /\ UNCHANGED <<scene, objs, heap>>
          ELSE /\ scene' = r
               /\ heap' = [i \in 1..Len(r.geometry) |-> r.geometry[i].vertices]
               /\ objs' = [i \in 1..Len(r.geometry) |->
                              [vertices |-> i, faces |-> r.geometry[i].faces]]
               /\ pc' = "select"
               /\ exc' = exc
    /\ UNCHANGED <<out, sunrise, sunset, default_time, solar_altitude, solar_azimuth,
                   mesh, rotation, vertices, faces, shadow_direction, shadow_dx,
                   shadow_dy, shadow_vertices, fig>>

(* Lines 80-87: the first mesh of a scene, the mesh itself, or ValueError. *)
Select ==
    /\ pc = "select"
    /\ LET r == SelectMesh(scene) IN
          IF r.exc # NoExc
          THEN /\ exc' = r.exc
               /\ pc' = IF ExceptCatches(r.exc.type) THEN "except" ELSE "crashed"
               /\ mesh' = mesh
          ELSE /\ mesh' = r.mesh
               /\ pc' = "rotate"
               /\ exc' = exc
    /\ UNCHANGED <<out, sunrise, sunset, default_time, solar_altitude, solar_azimuth,
                   scene, objs, heap, rotation, vertices, faces, shadow_direction,
                   shadow_dx, shadow_dy, shadow_vertices, fig>>

(* Lines 90-114: the sliders, the combined matrix, mesh.apply_transform    *)
(* and the reads of mesh.vertices and mesh.faces.  apply_transform returns *)
(* at once for the identity; otherwise it binds the transformed points, a  *)
(* new array, to the vertices attribute of the same mesh object.           *)
Rotate ==
    /\ pc = "rotate"
    /\ \E rx \in RotationAngles, ry \in RotationAngles, rz \in RotationAngles :
          LET M == RotationMatrix(rx, ry, rz)
              old == objs[mesh].vertices
              new == Len(heap) + 1
          IN  /\ rotation' = <<rx, ry, rz>>
              /\ IF M = Identity4
                 THEN /\ heap' = heap
                      /\ objs' = objs
                      /\ vertices' = old
                 ELSE /\ heap' = Append(heap, transform_points(M, heap[old]))
                      /\ objs' = [objs EXCEPT ![mesh].vertices = new]
                      /\ vertices' = new
    /\ faces' = objs[mesh].faces
    /\ pc' = "shadow"
    /\ UNCHANGED <<out, sunrise, sunset, default_time, solar_altitude, solar_azimuth,
                   scene, mesh, shadow_direction, shadow_dx, shadow_dy,
                   shadow_vertices, fig, exc>>

(* Lines 117-129: the shadow offset and the shadow vertices. *)
Project ==
    /\ pc = "shadow"
    /\ SunAboveHorizon(solar_altitude)
    /\ LET len == ShadowLength(solar_altitude)
           dir == ShadowDirection(solar_azimuth)
           dx == ShadowDx(len, dir)
           dy == ShadowDy(len, dir)
           sv == copy_target(heap, vertices)
       IN  /\ shadow_direction' = dir
           /\ shadow_dx' = dx
           /\ shadow_dy' = dy
           /\ shadow_vertices' = sv
           /\ heap' = WriteArray(heap, sv, ShadowVertices(array_copy(heap[vertices]), dx, dy))
    /\ pc' = "render"
    /\ UNCHANGED <<out, sunrise, sunset, default_time, solar_altitude, solar_azimuth,
                   scene, objs, mesh, rotation, vertices, faces, fig, exc>>

(* Lines 170-171: the sun is at or below the horizon. *)
NoShadow ==
    /\ pc = "shadow"
    /\ ~SunAboveHorizon(solar_altitude)
    /\ out' = Append(out, Write("warning", "The sun is below the horizon. No shadow is visible."))
    /\ pc' = "footer"
    /\ UNCHANGED <<sunrise, sunset, default_time, solar_altitude, solar_azimuth, scene,
                   objs, heap, mesh, rotation, vertices, faces, shadow_direction,
                   shadow_dx, shadow_dy, shadow_vertices, fig, exc>>

(* Lines 132-169: the two layers and the chart. *)
Render ==
    /\ pc = "render"
    /\ fig' = << Mesh3d(heap[vertices], faces, "Building"),
                 Mesh3d(heap[shadow_vertices], faces, "Shadow") >>
    /\ out' = Append(out, Write("plotly_chart", "3D Shading Simulation"))
    /\ pc' = "footer"
    /\ UNCHANGED <<sunrise, sunset, default_time, solar_altitude, solar_azimuth, scene,
                   objs, heap, mesh, rotation, vertices, faces, shadow_direction,
                   shadow_dx, shadow_dy, shadow_vertices, exc>>

(* Lines 173-174: st.error with the text of the exception. *)
Except ==
    /\ pc = "except"
    /\ out' = Append(out, Write("error", exc.msg))
    /\ pc' = "footer"
    /\ UNCHANGED <<sunrise, sunset, default_time, solar_altitude, solar_azimuth, scene,
                   objs, heap, mesh, rotation, vertices, faces, shadow_direction,
                   shadow_dx, shadow_dy, shadow_vertices, fig, exc>>

(* Lines 176-178 *)
Footer ==
    /\ pc = "footer"
    /\ out' = Append(out, Write("caption", "Developed by Hawkar Abdulhaq"))
    /\ pc' = "done"
    /\ UNCHANGED <<sunrise, sunset, default_time, solar_altitude, solar_azimuth, scene,
                   objs, heap, mesh, rotation, vertices, faces, shadow_direction,
                   shadow_dx, shadow_dy, shadow_vertices, fig, exc>>

Next ==
    \/ SunTimes
    \/ ChooseDefaultTime
    \/ TimeInput
    \/ SolarPosition
    \/ Load
    \/ Select
    \/ Rotate
    \/ Project
    \/ NoShadow
    \/ Render
    \/ Except
    \/ Footer

Spec == Init /\ [][Next]_vars

----------------------------------------------------------------------------
(* The shadow direction on its own, for every whole azimuth in [0, 360) *)

InitDirection ==
    /\ pc = "direction"
    /\ out = <<>>
    /\ sunrise = "Timestamp"
    /\ sunset = "Timestamp"
    /\ default_time = "Timestamp"
    /\ solar_altitude \in Altitudes
    /\ solar_azimuth \in 0..359
    /\ scene = NoScene
    /\ objs = <<>>
    /\ heap = <<>>
    /\ mesh = NoValue
    /\ rotation = <<>>
    /\ vertices = NoValue
    /\ faces = <<>>
    /\ shadow_direction = NoValue
    /\ shadow_dx = NoValue
    /\ shadow_dy = NoValue
    /\ shadow_vertices = NoValue
    /\ fig = <<>>
    /\ exc = NoExc

(* Lines 117-121 *)
ComputeDirection ==
    /\ pc = "direction"
    /\ SunAboveHorizon(solar_altitude)
    /\ shadow_direction' = ShadowDirection(solar_azimuth)
    /\ pc' = "direction_done"
    /\ UNCHANGED <<out, sunrise, sunset, default_time, solar_altitude, solar_azimuth,
                   scene, objs, heap, mesh, rotation, vertices, faces, shadow_dx,
                   shadow_dy, shadow_vertices, fig, exc>>

NextDirection == ComputeDirection

SpecDirection == InitDirection /\ [][NextDirection]_vars

----------------------------------------------------------------------------
(* Properties *)

Has(kind) == \E i \in 1..Len(out) : out[i].kind = kind

(* The vertices and faces of the selected mesh as the loader returned them *)
LoadedVertices == scene.geometry[1].vertices
LoadedFaces == scene.geometry[1].faces

(* Rotation of one point about a fixed axis by a multiple of 90 degrees *)
AboutX(d, v) == <<v[1], Cos90(d) * v[2] - Sin90(d) * v[3], Sin90(d) * v[2] + Cos90(d) * v[3]>>
AboutY(d, v) == <<Cos90(d) * v[1] + Sin90(d) * v[3], v[2], Cos90(d) * v[3] - Sin90(d) * v[1]>>
AboutZ(d, v) == <<Cos90(d) * v[1] - Sin90(d) * v[2], Sin90(d) * v[1] + Cos90(d) * v[2], v[3]>>

BelowHorizon == solar_altitude # NoValue /\ solar_altitude <= 0

(* C1: with the solar altitude at or below 0, whatever the azimuth, no     *)
(* shadow vertices are computed and nothing is handed to the renderer;     *)
(* once the projection step is passed, the warning is shown and no error.  *)
C1_NoShadowAtOrBelowHorizon ==
    BelowHorizon =>
        /\ shadow_vertices = NoValue
        /\ shadow_direction = NoValue
        /\ fig = <<>>
        /\ pc # "render"
        /\ ~Has("plotly_chart")
        /\ (rotation # <<>> /\ pc \in {"footer", "done"}) =>
              (Has("warning") /\ ~Has("error") /\ exc = NoExc)

C1_Witness ==
    /\ pc = "done"
    /\ solar_altitude = 0
    /\ rotation # <<>>
    /\ Has("warning")

(* C2: for every azimuth in [0, 360) and altitude above 0, the two-branch  *)
(* shadow direction equals (azimuth + 180) mod 360 and lies in [0, 360).   *)
C2_DirectionIsOppositeModulo360 ==
    shadow_direction # NoValue =>
        /\ shadow_direction = (solar_azimuth + 180) % 360
        /\ shadow_direction \in 0..359

C2_Witness ==
    /\ pc = "direction_done"
    /\ solar_azimuth = 180
    /\ shadow_direction = 0

(* C3 as stated: after the rotation every vertex is the loaded vertex      *)
(* rotated about X by rx, the result about Y by ry, the result about Z by  *)
(* rz.                                                                     *)
C3_RotatedXThenYThenZ ==
    pc = "shadow" =>
        \A i \in 1..Len(LoadedVertices) :
            heap[vertices][i] =
                AboutZ(rotation[3], AboutY(rotation[2], AboutX(rotation[1], LoadedVertices[i])))

(* C3 amended: the matrices are multiplied as Rx.Ry.Rz, so every vertex    *)
(* is the loaded vertex rotated about Z by rz, the result about Y by ry,   *)
(* the result about X by rx; the number of vertices is kept.               *)
C3_RotatedZThenYThenX ==
    pc = "shadow" =>
        /\ Len(heap[vertices]) = Len(LoadedVertices)
        /\ \A i \in 1..Len(LoadedVertices) :
              heap[vertices][i] =
                  AboutX(rotation[1], AboutY(rotation[2], AboutZ(rotation[3], LoadedVertices[i])))

C3_Witness ==
    /\ pc = "shadow"
    /\ rotation = <<90, 0, 90>>
    /\ Len(LoadedVertices) > 0
    /\ LoadedVertices[1] = <<1000, 0, 0>>
    /\ heap[vertices][1] = <<0, 0, 1000>>

(* C4 as stated: after the rotation the vertices of the mesh object the    *)
(* loader returned are as they were loaded, and the rotated vertices are   *)
(* not those of that object.                                               *)
C4_LoadedMeshNotMutated ==
    rotation # <<>> =>
        /\ heap[objs[1].vertices] = LoadedVertices
        /\ (heap[vertices] # LoadedVertices => vertices # objs[1].vertices)

(* C5 as stated: with sunrise or sunset not available, the run does not    *)
(* crash.                                                                  *)
C5_FallbackNeverCrashes ==
    (sunrise = "NaT" \/ sunset = "NaT") => pc # "crashed"

(* C6: with the altitude above 0, the shadow layer has as many vertices as *)
(* the building layer and as the loaded mesh, both layers carry the index  *)
(* triples of the mesh in their order, and the run ends without an error,  *)
(* for a mesh without vertices too.                                        *)
C6_CountAndTrianglesPreserved ==
    /\ fig # <<>> =>
          /\ Len(fig[2].xyz) = Len(fig[1].xyz)
          /\ Len(fig[2].xyz) = Len(LoadedVertices)
          /\ fig[2].ijk = fig[1].ijk
          /\ fig[2].ijk = LoadedFaces
    /\ (rotation # <<>> /\ ~BelowHorizon /\ pc \in {"footer", "done"}) =>
          /\ fig # <<>>
          /\ exc = NoExc
          /\ ~Has("error")
          /\ Has("plotly_chart")

C6_Witness ==
    /\ pc = "done"
    /\ fig # <<>>
    /\ Len(fig[2].xyz) > 1
    /\ fig[2].ijk # <<>>

(* C7: every shadow vertex i is (x_i + dx, y_i + dy, 0) for the building   *)
(* vertex (x_i, y_i, z_i), with one offset (dx, dy) for all the vertices.  *)
C7_ShiftedAndFlattened ==
    fig # <<>> =>
        \A i \in 1..Len(fig[2].xyz) :
            fig[2].xyz[i] = <<fig[1].xyz[i][1] + shadow_dx, fig[1].xyz[i][2] + shadow_dy, 0>>

C7_Witness ==
    /\ fig # <<>>
    /\ shadow_dx # 0
    /\ shadow_dy # 0
    /\ \E i, j \in 1..Len(fig[1].xyz) : fig[1].xyz[i][3] # 0 /\ fig[1].xyz[j][3] # fig[1].xyz[i][3]

(* C8: an empty scene ends in the error "contains no geometry", another    *)
(* error than the one for an unrecognized type, with no rotation, no       *)
(* projection and no render, whatever the altitude.                        *)
C8_EmptySceneIsNoGeometryError ==
    /\ (scene.kind = "Scene" /\ scene.geometry = <<>> /\ pc # "select") =>
          /\ pc \in {"except", "footer", "done"}
          /\ exc.msg = "The 3D model contains no geometry."
          /\ rotation = <<>>
          /\ vertices = NoValue
          /\ shadow_vertices = NoValue
          /\ fig = <<>>
          /\ ~Has("plotly_chart")
          /\ ~Has("warning")
          /\ (pc \in {"footer", "done"} =>
                \E i \in 1..Len(out) : out[i] = Write("error", "The 3D model contains no geometry."))
    /\ (scene.kind = "PointCloud" /\ pc # "select") =>
          /\ exc.msg = "Unsupported 3D model format."
          /\ exc.msg # "The 3D model contains no geometry."

C8_Witness ==
    /\ pc = "done"
    /\ scene.kind = "Scene"
    /\ scene.geometry = <<>>
    /\ solar_altitude > 0
    /\ Has("error")

(* An exception raised after the solar position was shown, that is inside  *)
(* the try block.                                                          *)
LoadFailed == solar_altitude # NoValue /\ exc # NoExc

(* C9: a failure of the load or of the selection is caught and written     *)
(* with its cause after the solar position, the footer follows, and no     *)
(* rotation, projection or render takes place.                             *)
C9_LoadErrorsCaughtAtBoundary ==
    LoadFailed =>
        /\ pc \in {"except", "footer", "done"}
        /\ \E i \in 1..Len(out) : out[i] = Write("write", "Solar Altitude")
        /\ \E i \in 1..Len(out) : out[i] = Write("write", "Solar Azimuth")
        /\ rotation = <<>>
        /\ vertices = NoValue
        /\ shadow_vertices = NoValue
        /\ fig = <<>>
        /\ (pc \in {"footer", "done"} =>
              \E i, j \in 1..Len(out) :
                  /\ i < j
                  /\ out[i] = Write("write", "Solar Azimuth")
                  /\ out[j] = Write("error", exc.msg))
        /\ (pc = "done" =>
              /\ out[Len(out)].kind = "caption"
              /\ out[Len(out) - 1].kind = "error")

C9_Witness ==
    /\ pc = "done"
    /\ exc.type = "OSError"
    /\ Has("error")

(* C10: computing the shadow leaves the model as it was: the building      *)
(* layer carries the rotated vertices that the mesh had before the shadow  *)
(* was computed, neither flattened nor shifted, and the loaded faces.      *)
C10_ModelUnchangedByProjection ==
    pc \in {"render", "footer", "done"} /\ shadow_vertices # NoValue =>
        /\ heap[vertices] = transform_points(RotationMatrix(rotation[1], rotation[2], rotation[3]),
                                             LoadedVertices)
        /\ heap[objs[1].vertices] = heap[vertices]
        /\ faces = LoadedFaces
        /\ objs[1].faces = LoadedFaces
        /\ (fig # <<>> =>
              /\ fig[1].xyz = heap[vertices]
              /\ fig[1].ijk = LoadedFaces)

C10_Witness ==
    /\ pc = "done"
    /\ fig # <<>>
    /\ fig[1].xyz # fig[2].xyz
    /\ \E i \in 1..Len(fig[1].xyz) : fig[1].xyz[i][3] # 0

====
